---- MODULE Spec2Model ----
(***************************************************************************)
(* A model of the notebook chalk_talk_demo-neo.ipynb: the cells that build *)
(* and publish the training image, stage the dataset, train, compile,      *)
(* deploy, predict and delete the endpoint.  Every external command or SDK *)
(* call is a step whose outcome (success or failure) is chosen by the      *)
(* environment; the control flow around it is the notebook's.              *)
(***************************************************************************)
EXTENDS Naturals, Integers, Sequences, FiniteSets, TLC

(* ---- bounds of the model ---- *)

\* how many times the operator invokes one cell of the notebook
MaxRuns == 2

\* how many images a class folder of the dataset holds
MaxImgs == 1

(* ---- literals of cell 8 ---- *)

IMAGE == "sagemaker-fastai"

FASTAI_VERSION == "1.0"

PY_VERSION == "py36"

\* for arch in gpu cpu
Archs == <<"gpu", "cpu">>

\* region=${region:-us-west-2}
DefaultRegion == "us-west-2"

\* the accounts the credentials may belong to, and the regions the CLI
\* configuration may name ("" is: no region configured)
Accounts == {"111122223333"}

ConfiguredRegions == {"", "eu-west-1"}

VARIABLES
  awsAccount,   \* the account of the current IAM credentials
  cfgRegion,    \* the region of the CLI configuration, "" when none
  dockerfile,   \* a Dockerfile is present in the working directory
  ecrRepo,      \* the registry holds a repository named IMAGE
  ecrTags,      \* the image names pushed to the registry
  logins,       \* the registries docker is logged in to
  localImages,  \* the image names the local docker daemon holds
  pc8,          \* position of the shell in cell 8
  account,      \* shell variable account
  region,       \* shell variable region
  archIx,       \* index in Archs of the loop variable arch
  exitCode,     \* exit status of the last finished run of cell 8
  cmds,         \* the commands the current run of cell 8 has executed
  buildRuns,    \* how many times cell 8 has been invoked
  cell,         \* the notebook's position: the next cell of CellOrder to run
  last,         \* the cell the operator ran last, "none" before the first
  image_name,   \* Python variable image_name of cell 24, <<>> before
  dirExists,    \* data/shirts is a directory
  dirContent,   \* the image files under data/shirts, as <<class, n>>
  archive,      \* shirts_imgs.tar.gz in the working directory
  pc12,         \* position of the shell in cell 12
  exit12,       \* exit status of the last finished run of cell 12
  cmds12,       \* the commands the current run of cell 12 has executed
  localRuns,    \* how many times cell 12 has been invoked
  s3Keys,       \* the objects of the bucket under prefix, as <<folder, n>>
  data_location,\* Python variable data_location of cell 20, <<>> before
  staged,       \* how the last run of cell 20 ended
  uploadCalls,  \* how many times cell 20 has called upload_data
  remoteRuns,   \* how many times cell 20 has been invoked
  jobStatus,    \* terminal state of the latest training job, "none" before
  compiled,     \* the estimator holds a compiled model
  compileSaw,   \* the job states compile_model has been invoked in
  endpoints,    \* the names of the live endpoints
  img_bytes,    \* Python variable img_bytes of cell 41 is set
  predictSaw,   \* whether the endpoint was live, for each predict call made
  lastDelete,   \* how the last delete_endpoint call ended
  runs          \* how many times each cell from "image" on has been invoked

buildVars == <<dockerfile, ecrRepo, ecrTags, logins, localImages, pc8, account,
               region, archIx, exitCode, cmds, buildRuns>>

localVars == <<dirExists, dirContent, archive, pc12, exit12, cmds12, localRuns>>

remoteVars == <<s3Keys, data_location, staged, uploadCalls, remoteRuns>>

serveVars == <<jobStatus, compiled, compileSaw, endpoints, img_bytes, predictSaw,
               lastDelete, runs>>

pos == <<cell, last>>

vars == <<awsAccount, cfgRegion, buildVars, pos, image_name, localVars, remoteVars,
          serveVars>>

env8 == <<awsAccount, cfgRegion, image_name, localVars, remoteVars, serveVars>>

(* ---- the order of the notebook's cells ---- *)

\* a variant: the compile cell placed before the training cell
CellOrderCompileFirst ==
  <<"build", "stage_local", "stage_remote", "image", "compile", "fit", "metrics",
    "deploy", "fetch", "predict", "delete", "end">>

\* a variant: the predict cell placed before the deploy cell
CellOrderPredictFirst ==
  <<"build", "stage_local", "stage_remote", "image", "fit", "metrics", "compile",
    "fetch", "predict", "deploy", "delete", "end">>

\* the code cells that act on the outside world, top to bottom
CellOrder ==
  <<"build", "stage_local", "stage_remote", "image", "fit", "metrics", "compile",
    "deploy", "fetch", "predict", "delete", "end">>

CellIx(c) == CHOOSE i \in 1..Len(CellOrder) : CellOrder[i] = c

\* the cell after c
Succ(c) == CellOrder[CellIx(c) + 1]

\* a cell can be run when the notebook has reached it; the operator may also
\* run again the cell that was run last
CanRun(c) == cell = c \/ (last = c /\ cell = Succ(c))

\* a cell that ends without an error lets the run go on to the next cell; a
\* cell that raises (a shell cell raises on a non-zero exit status) stops it
After(c, ok) == IF ok THEN Succ(c) ELSE c

(* ---- cell 8: build and publish ---- *)

\* a variant: the tag without the loop variable
TAGFixedArch(a) == <<FASTAI_VERSION, Archs[1], PY_VERSION>>

\* TAG="${FASTAI_VERSION}-${arch}-${PY_VERSION}"
TAG(a) == <<FASTAI_VERSION, a, PY_VERSION>>

\* ${IMAGE}:${TAG}
LocalName(a) == <<IMAGE, TAG(a)>>

\* FULLNAME="${account}.dkr.ecr.${region}.amazonaws.com/${IMAGE}:${TAG}"
FULLNAME(acct, reg, a) == <<acct, "dkr.ecr", reg, "amazonaws.com", IMAGE, TAG(a)>>

\* the loop variable
arch == Archs[archIx]

\* the exit status of a command: 0 on success
Rc(ok) == IF ok THEN 0 ELSE 1

\* the log of the run: the command, the value of arch, the image name it was
\* given (<<>> when it takes none) and its exit status
Ran(cmd, a, name, rc) ==
  cmds' = Append(cmds, [cmd |-> cmd, arch |-> a, name |-> name, rc |-> rc])

\* the operator runs the cell: the shell starts at its first command
StartBuild ==
  /\ CanRun("build")
  /\ pc8 \in {"idle", "exited"}
  /\ buildRuns < MaxRuns
  /\ buildRuns' = buildRuns + 1
  /\ cell' = "build"
  /\ last' = "build"
  /\ pc8' = "wget"
  /\ account' = ""
  /\ region' = ""
  /\ archIx' = 1
  /\ cmds' = <<>>
  /\ UNCHANGED <<env8, dockerfile, ecrRepo, ecrTags, logins, localImages, exitCode>>

\* wget .../Dockerfile
WgetDockerfile ==
  /\ pc8 = "wget"
  /\ \E ok \in BOOLEAN :
       /\ dockerfile' = (dockerfile \/ ok)
       /\ Ran("wget", "", <<>>, Rc(ok))
  /\ pc8' = "sts"
  /\ UNCHANGED <<env8, pos, ecrRepo, ecrTags, logins, localImages, account, region,
                 archIx, exitCode, buildRuns>>

\* a variant: the status of the account lookup is not tested
AfterIdentityUntested(rc) == "region"

\* where the shell goes after the account lookup: if [ $? -ne 0 ] then exit 255
AfterIdentity(rc) == IF rc # 0 THEN "exited" ELSE "region"

\* account=$(aws sts get-caller-identity ...); if [ $? -ne 0 ]; then exit 255; fi
GetCallerIdentity ==
  /\ pc8 = "sts"
  /\ \E ok \in BOOLEAN :
       /\ account' = (IF ok THEN awsAccount ELSE "")
       /\ Ran("sts", "", <<>>, Rc(ok))
       /\ pc8' = AfterIdentity(Rc(ok))
       /\ exitCode' = (IF AfterIdentity(Rc(ok)) = "exited" THEN 255 ELSE exitCode)
  /\ UNCHANGED <<env8, pos, dockerfile, ecrRepo, ecrTags, logins, localImages, region,
                 archIx, buildRuns>>

\* region=$(aws configure get region); region=${region:-us-west-2}
GetRegion ==
  /\ pc8 = "region"
  /\ region' = (IF cfgRegion = "" THEN DefaultRegion ELSE cfgRegion)
  /\ Ran("region", "", <<>>, Rc(cfgRegion # ""))
  /\ pc8' = "describe"
  /\ UNCHANGED <<env8, pos, dockerfile, ecrRepo, ecrTags, logins, localImages, account,
                 archIx, exitCode, buildRuns>>

\* where the shell goes after the existence check: if [ $? -ne 0 ] then create
AfterDescribe(rc) == IF rc # 0 THEN "create" ELSE "login_own"

\* aws ecr describe-repositories --repository-names "${IMAGE}" > /dev/null 2>&1
\* (succeeds only when the repository exists; any error gives a non-zero status)
DescribeRepositories ==
  /\ pc8 = "describe"
  /\ \E ok \in BOOLEAN :
       /\ ok => ecrRepo
       /\ Ran("describe", "", <<>>, Rc(ok))
       /\ pc8' = AfterDescribe(Rc(ok))
  /\ UNCHANGED <<env8, pos, dockerfile, ecrRepo, ecrTags, logins, localImages, account,
                 region, archIx, exitCode, buildRuns>>

\* where the shell goes after create-repository ended with rc: the script does
\* not test the status, the login follows
AfterCreate(rc) == "login_own"

\* aws ecr create-repository --repository-name "${IMAGE}" > /dev/null
\* (succeeds only when the repository does not exist yet)
CreateRepository ==
  /\ pc8 = "create"
  /\ \E ok \in BOOLEAN :
       /\ ok => ~ecrRepo
       /\ ecrRepo' = (ecrRepo \/ ok)
       /\ Ran("create", "", <<>>, Rc(ok))
       /\ pc8' = AfterCreate(Rc(ok))
  /\ UNCHANGED <<env8, pos, dockerfile, ecrTags, logins, localImages, account, region,
                 archIx, exitCode, buildRuns>>

\* $(aws ecr get-login --region ${region} --no-include-email)
LoginOwn ==
  /\ pc8 = "login_own"
  /\ \E ok \in BOOLEAN :
       /\ logins' = (IF ok THEN logins \cup {"own"} ELSE logins)
       /\ Ran("login_own", "", <<>>, Rc(ok))
  /\ pc8' = "login_base"
  /\ UNCHANGED <<env8, pos, dockerfile, ecrRepo, ecrTags, localImages, account, region,
                 archIx, exitCode, buildRuns>>

\* $(aws ecr get-login --registry-ids 520713654638 --region ${region} --no-include-email)
LoginBase ==
  /\ pc8 = "login_base"
  /\ \E ok \in BOOLEAN :
       /\ logins' = (IF ok THEN logins \cup {"base"} ELSE logins)
       /\ Ran("login_base", "", <<>>, Rc(ok))
  /\ pc8' = "build"
  /\ UNCHANGED <<env8, pos, dockerfile, ecrRepo, ecrTags, localImages, account, region,
                 archIx, exitCode, buildRuns>>

\* where the shell goes after a command of the loop body that ended with rc:
\* the script sets no errexit and tests no status, so the next command runs
AfterLoopStep(next, rc) == next

\* docker build -t ${IMAGE}:${TAG} --build-arg ARCH="$arch" --build-arg REGION="${region}" .
DockerBuild ==
  /\ pc8 = "build"
  /\ \E ok \in BOOLEAN :
       /\ ok => dockerfile
       /\ localImages' = (IF ok THEN localImages \cup {LocalName(arch)} ELSE localImages)
       /\ Ran("build", arch, LocalName(arch), Rc(ok))
       /\ pc8' = AfterLoopStep("tag", Rc(ok))
  /\ UNCHANGED <<env8, pos, dockerfile, ecrRepo, ecrTags, logins, account, region,
                 archIx, exitCode, buildRuns>>

\* docker tag ${IMAGE}:${TAG} ${FULLNAME}
DockerTag ==
  /\ pc8 = "tag"
  /\ \E ok \in BOOLEAN :
       /\ ok => LocalName(arch) \in localImages
       /\ localImages' = (IF ok THEN localImages \cup {FULLNAME(account, region, arch)}
                                ELSE localImages)
       /\ Ran("tag", arch, FULLNAME(account, region, arch), Rc(ok))
       /\ pc8' = AfterLoopStep("push", Rc(ok))
  /\ UNCHANGED <<env8, pos, dockerfile, ecrRepo, ecrTags, logins, account, region,
                 archIx, exitCode, buildRuns>>

\* docker push ${FULLNAME}; done
\* (the status of the last push is the script's, and a non-zero status makes
\* the cell raise)
DockerPush ==
  /\ pc8 = "push"
  /\ \E ok \in BOOLEAN :
       /\ ok => /\ FULLNAME(account, region, arch) \in localImages
                /\ ecrRepo
                /\ "own" \in logins
       /\ ecrTags' = (IF ok THEN ecrTags \cup {FULLNAME(account, region, arch)} ELSE ecrTags)
       /\ Ran("push", arch, FULLNAME(account, region, arch), Rc(ok))
       /\ IF archIx < Len(Archs) /\ AfterLoopStep("build", Rc(ok)) = "build"
            THEN /\ archIx' = archIx + 1
                 /\ pc8' = "build"
                 /\ UNCHANGED <<exitCode, cell>>
            ELSE /\ archIx' = archIx
                 /\ pc8' = "exited"
                 /\ exitCode' = Rc(ok)
                 /\ cell' = After("build", ok)
  /\ UNCHANGED <<env8, last, dockerfile, ecrRepo, logins, localImages, account, region,
                 buildRuns>>

NextBuild ==
  \/ StartBuild
  \/ WgetDockerfile
  \/ GetCallerIdentity
  \/ GetRegion
  \/ DescribeRepositories
  \/ CreateRepository
  \/ LoginOwn
  \/ LoginBase
  \/ DockerBuild
  \/ DockerTag
  \/ DockerPush

(* ---- cell 12: download the dataset ---- *)

\* the two labelled subfolders of the dataset
Classes == {"metal", "sport"}

\* the image files of the archive shirts_imgs.tar.gz
ArchiveFiles == Classes \X (1..MaxImgs)

Ran12(cmd, rc) == cmds12' = Append(cmds12, [cmd |-> cmd, rc |-> rc])

\* a variant: the body runs without the test
BodyRunsAlways(exists) == TRUE

\* if [ ! -d data/shirts ]; then ... fi : the body runs when the directory is absent
BodyRuns(exists) == ~exists

\* the operator runs the cell: the shell tests the directory
StartLocal ==
  /\ CanRun("stage_local")
  /\ pc12 \in {"idle", "exited"}
  /\ localRuns < MaxRuns
  /\ localRuns' = localRuns + 1
  /\ last' = "stage_local"
  /\ cmds12' = <<>>
  /\ IF BodyRuns(dirExists)
       THEN /\ pc12' = "mkdir"
            /\ cell' = "stage_local"
            /\ UNCHANGED exit12
       ELSE /\ pc12' = "exited"
            /\ exit12' = 0
            /\ cell' = After("stage_local", TRUE)
  /\ UNCHANGED <<awsAccount, cfgRegion, buildVars, image_name, remoteVars, serveVars,
                 dirExists, dirContent, archive>>

\* mkdir -p data/shirts
Mkdir ==
  /\ pc12 = "mkdir"
  /\ dirExists' = TRUE
  /\ Ran12("mkdir", 0)
  /\ pc12' = "wget"
  /\ UNCHANGED <<awsAccount, cfgRegion, buildVars, pos, image_name, remoteVars, serveVars,
                 dirContent, archive, exit12, localRuns>>

\* wget -q .../shirts_imgs.tar.gz : the whole archive, a truncated one, or no file
WgetArchive ==
  /\ pc12 = "wget"
  /\ \E got \in {"whole", "truncated", "absent"} :
       /\ archive' = got
       /\ Ran12("wget", Rc(got = "whole"))
  /\ pc12' = "tar"
  /\ UNCHANGED <<awsAccount, cfgRegion, buildVars, pos, image_name, remoteVars, serveVars,
                 dirExists, dirContent, exit12, localRuns>>

\* the files tar can write from an archive: all of a whole one, some but not
\* all of a truncated one, none of an absent one
Extractable(a) ==
  CASE a = "whole" -> {ArchiveFiles}
    [] a = "truncated" -> (SUBSET ArchiveFiles) \ {ArchiveFiles}
    [] OTHER -> {{}}

\* tar zxf shirts_imgs.tar.gz -C data/shirts
TarExtract ==
  /\ pc12 = "tar"
  /\ \E files \in Extractable(archive) :
       dirContent' = dirContent \cup files
  /\ Ran12("tar", Rc(archive = "whole"))
  /\ pc12' = "rm"
  /\ UNCHANGED <<awsAccount, cfgRegion, buildVars, pos, image_name, remoteVars, serveVars,
                 dirExists, archive, exit12, localRuns>>

\* rm shirts_imgs.tar.gz ; fi  (the status of rm is the script's)
RmArchive ==
  /\ pc12 = "rm"
  /\ archive' = "absent"
  /\ Ran12("rm", Rc(archive # "absent"))
  /\ pc12' = "exited"
  /\ exit12' = Rc(archive # "absent")
  /\ cell' = After("stage_local", archive # "absent")
  /\ UNCHANGED <<awsAccount, cfgRegion, buildVars, last, image_name, remoteVars,
                 serveVars, dirExists, dirContent, localRuns>>

NextLocal ==
  \/ StartLocal
  \/ Mkdir
  \/ WgetArchive
  \/ TarExtract
  \/ RmArchive

(* ---- cell 20: upload the dataset ---- *)

\* bucket_name = sagemaker_session.default_bucket()
bucket_name == <<"sagemaker", cfgRegion, awsAccount>>

\* prefix = 'sagemaker/DEMO-shirts-classification'
prefix == "sagemaker/DEMO-shirts-classification"

\* a variant: the listing looks in the other class folder
keySport == "sport"

\* key = f'{prefix}/metal/' : the folder under prefix the listing looks in
key == "metal"

\* response['KeyCount'] of s3.list_objects_v2(Bucket=bucket_name, Prefix=key)
KeyCount(keys, k) == Cardinality({o \in keys : o[1] = k})

\* f's3://{bucket_name}/{prefix}'
S3Uri(b, p) == <<"s3:", "", b, p>>

\* the value upload_data(path, bucket, key_prefix) returns for a directory
UploadDataResult(b, p) == S3Uri(b, p)

\* a variant: only the files of the listed folder are written
UploadedMetalOnly(keys, files) == keys \cup {f \in files : f[1] = "metal"}

\* the objects under prefix once upload_data has written files: it adds one
\* object per local file, under the file's path below the dataset root
Uploaded(keys, files) == keys \cup files

\* cell 20: list the objects under key; reuse the location when there are any,
\* otherwise upload the directory tree.  The listing or the upload may raise;
\* an upload that raises has written some of the files.
StageRemote ==
  /\ CanRun("stage_remote")
  /\ remoteRuns < MaxRuns
  /\ remoteRuns' = remoteRuns + 1
  /\ last' = "stage_remote"
  /\ \/ /\ staged' = "list_error"
        /\ cell' = After("stage_remote", FALSE)
        /\ UNCHANGED <<s3Keys, data_location, uploadCalls>>
     \/ /\ KeyCount(s3Keys, key) > 0
        /\ data_location' = S3Uri(bucket_name, prefix)
        /\ staged' = "skipped"
        /\ cell' = After("stage_remote", TRUE)
        /\ UNCHANGED <<s3Keys, uploadCalls>>
     \/ /\ ~(KeyCount(s3Keys, key) > 0)
        /\ uploadCalls' = uploadCalls + 1
        /\ \/ /\ s3Keys' = Uploaded(s3Keys, dirContent)
              /\ data_location' = UploadDataResult(bucket_name, prefix)
              /\ staged' = "uploaded"
              /\ cell' = After("stage_remote", TRUE)
           \/ /\ \E done \in (SUBSET dirContent) \ {dirContent} :
                   s3Keys' = Uploaded(s3Keys, done)
              /\ staged' = "upload_error"
              /\ cell' = After("stage_remote", FALSE)
              /\ UNCHANGED data_location
  /\ UNCHANGED <<awsAccount, cfgRegion, buildVars, image_name, localVars, serveVars>>

NextStaging ==
  \/ NextLocal
  \/ StageRemote

(* ---- cells 23 to 27: the training image and the estimator ---- *)

\* region = boto3.session.Session().region_name, as the f-string formats it
PyRegion(cfg) == IF cfg = "" THEN "None" ELSE cfg

\* image_name = f'{account}.dkr.ecr.{region}.amazonaws.com/{base_image_name}:1.0-gpu-py36'
ImageName(acct, reg) == <<acct, "dkr.ecr", reg, "amazonaws.com", "sagemaker-fastai",
                          <<"1.0", "gpu", "py36">>>>

Count(c) == runs' = [runs EXCEPT ![c] = @ + 1]

\* the operator runs cell c, which ends without an error (ok) or raises
RunCell(c, ok) ==
  /\ CanRun(c)
  /\ runs[c] < MaxRuns
  /\ Count(c)
  /\ last' = c
  /\ cell' = After(c, ok)

\* cells 23, 24, 26 and 27: get_caller_identity may raise; the estimator is
\* built with image_name, and data_location is set again from bucket and prefix
ResolveImage ==
  /\ \E ok \in BOOLEAN :
       /\ RunCell("image", ok)
       /\ image_name' = (IF ok THEN ImageName(awsAccount, PyRegion(cfgRegion)) ELSE image_name)
       /\ data_location' = (IF ok THEN S3Uri(bucket_name, prefix) ELSE data_location)
  /\ UNCHANGED <<awsAccount, cfgRegion, buildVars, localVars, s3Keys, staged,
                 uploadCalls, remoteRuns, jobStatus, compiled, compileSaw, endpoints,
                 img_bytes, predictSaw, lastDelete>>

(* ---- cells 28 to 45: train, compile, deploy, predict, delete ---- *)

\* the terminal states of a training job
JobStates == {"Completed", "Failed", "Stopped"}

\* estimator.fit blocks until the job is terminal and returns only for a
\* job that completed; for a failed or stopped job it raises
FitReturns(st) == st = "Completed"

\* cell 28: estimator.fit(data_location, job_name=training_job_name)
\* (the job can complete only with an image the registry holds)
Fit ==
  /\ \E st \in JobStates :
       /\ st = "Completed" => image_name \in ecrTags
       /\ jobStatus' = st
       /\ RunCell("fit", FitReturns(st))
  /\ UNCHANGED <<awsAccount, cfgRegion, buildVars, image_name, localVars, remoteVars,
                 compiled, compileSaw, endpoints, img_bytes, predictSaw, lastDelete>>

\* cell 30: TrainingJobAnalytics(...).dataframe() and the plots
Metrics ==
  /\ \E ok \in BOOLEAN : RunCell("metrics", ok)
  /\ UNCHANGED <<awsAccount, cfgRegion, buildVars, image_name, localVars, remoteVars,
                 jobStatus, compiled, compileSaw, endpoints, img_bytes, predictSaw,
                 lastDelete>>

\* cells 34 and 35: estimator.compile_model(...), then the model is named
CompileModel ==
  /\ \E ok \in BOOLEAN :
       /\ RunCell("compile", ok)
       /\ compiled' = (compiled \/ ok)
  /\ compileSaw' = compileSaw \cup {jobStatus}
  /\ UNCHANGED <<awsAccount, cfgRegion, buildVars, image_name, localVars, remoteVars,
                 jobStatus, endpoints, img_bytes, predictSaw, lastDelete>>

\* optimized_ic.name = 'deployed-shirts-classification', the endpoint's name too
EndpointName == "deployed-shirts-classification"

\* the hosting service creates an endpoint unless one of that name is live
DeployResult(live, ok) == IF ok /\ EndpointName \notin live THEN "InService" ELSE "error"

\* cell 37: optimized_ic.deploy(initial_instance_count = 1, instance_type = 'ml.c5.4xlarge')
Deploy ==
  /\ \E ok \in BOOLEAN :
       /\ RunCell("deploy", DeployResult(endpoints, ok) = "InService")
       /\ endpoints' = (IF DeployResult(endpoints, ok) = "InService"
                          THEN endpoints \cup {EndpointName} ELSE endpoints)
  /\ UNCHANGED <<awsAccount, cfgRegion, buildVars, image_name, localVars, remoteVars,
                 jobStatus, compiled, compileSaw, img_bytes, predictSaw, lastDelete>>

\* cell 41: img_bytes = requests.get(url).content; Image.open(BytesIO(img_bytes))
FetchImage ==
  /\ \E ok \in BOOLEAN :
       /\ RunCell("fetch", ok)
       /\ img_bytes' = (img_bytes \/ ok)
  /\ UNCHANGED <<awsAccount, cfgRegion, buildVars, image_name, localVars, remoteVars,
                 jobStatus, compiled, compileSaw, endpoints, predictSaw, lastDelete>>

\* cell 42: response = optimized_ic_classifier.predict(img_bytes)
\* (only a live endpoint answers)
Predict ==
  /\ \E ok \in BOOLEAN :
       /\ ok => EndpointName \in endpoints
       /\ RunCell("predict", ok)
  /\ predictSaw' = predictSaw \cup {EndpointName \in endpoints}
  /\ UNCHANGED <<awsAccount, cfgRegion, buildVars, image_name, localVars, remoteVars,
                 jobStatus, compiled, compileSaw, endpoints, img_bytes, lastDelete>>

\* a variant: deleting an endpoint that is not there succeeds silently
DeleteResultSilent(live) == "deleted"

\* the hosting service deletes a live endpoint and reports an endpoint that is
\* not there as not found
DeleteResult(live) == IF EndpointName \in live THEN "deleted" ELSE "not_found"

\* cell 45: optimized_ic_classifier.delete_endpoint()
DeleteEndpoint ==
  /\ RunCell("delete", DeleteResult(endpoints) = "deleted")
  /\ lastDelete' = DeleteResult(endpoints)
  /\ endpoints' = endpoints \ {EndpointName}
  /\ UNCHANGED <<awsAccount, cfgRegion, buildVars, image_name, localVars, remoteVars,
                 jobStatus, compiled, compileSaw, img_bytes, predictSaw>>

NextServing ==
  \/ ResolveImage
  \/ Fit
  \/ Metrics
  \/ CompileModel
  \/ Deploy
  \/ FetchImage
  \/ Predict
  \/ DeleteEndpoint

(* ---- initial states ---- *)

\* the credentials and the CLI configuration
InitEnv ==
  /\ awsAccount \in Accounts
  /\ cfgRegion \in ConfiguredRegions

\* before cell 8 has run: the repository may exist already
InitBuildVars ==
  /\ dockerfile = FALSE
  /\ ecrRepo \in BOOLEAN
  /\ ecrTags = {}
  /\ logins = {}
  /\ localImages = {}
  /\ pc8 = "idle"
  /\ account = ""
  /\ region = ""
  /\ archIx = 1
  /\ exitCode = 0
  /\ cmds = <<>>
  /\ buildRuns = 0

\* before cell 12 has run: data/shirts may exist already, with any content
InitLocalVars ==
  /\ dirExists \in BOOLEAN
  /\ dirContent \in SUBSET ArchiveFiles
  /\ ~dirExists => dirContent = {}
  /\ archive = "absent"
  /\ pc12 = "idle"
  /\ exit12 = 0
  /\ cmds12 = <<>>
  /\ localRuns = 0

\* before cell 20 has run: the bucket may hold any objects under prefix
InitRemoteVars ==
  /\ s3Keys \in SUBSET ArchiveFiles
  /\ data_location = <<>>
  /\ staged = "not_run"
  /\ uploadCalls = 0
  /\ remoteRuns = 0

\* before cell 23 has run
InitServeVars ==
  /\ image_name = <<>>
  /\ jobStatus = "none"
  /\ compiled = FALSE
  /\ compileSaw = {}
  /\ endpoints = {}
  /\ img_bytes = FALSE
  /\ predictSaw = {}
  /\ lastDelete = "none"
  /\ runs = [c \in {"image", "fit", "metrics", "compile", "deploy", "fetch",
                    "predict", "delete"} |-> 0]

Init ==
  /\ InitEnv
  /\ InitBuildVars
  /\ InitLocalVars
  /\ InitRemoteVars
  /\ InitServeVars
  /\ cell = "build"
  /\ last = "none"

Next ==
  \/ NextBuild
  \/ NextStaging
  \/ NextServing

\* the whole notebook, from the first cell.  Its state space is the product of
\* the stages'; the properties of one stage are checked under the
\* specification of that stage below, which starts where the stage starts.
Spec == Init /\ [][Next]_vars

(* ---- the build stage on its own ---- *)

\* a working directory without the dataset and a bucket without objects
NoData ==
  /\ dirExists = FALSE /\ dirContent = {} /\ archive = "absent" /\ pc12 = "idle"
  /\ exit12 = 0 /\ cmds12 = <<>> /\ localRuns = 0
  /\ s3Keys = {} /\ data_location = <<>> /\ staged = "not_run"
  /\ uploadCalls = 0 /\ remoteRuns = 0

InitBuild ==
  /\ InitEnv
  /\ InitBuildVars
  /\ NoData
  /\ InitServeVars
  /\ cell = "build"
  /\ last = "none"

SpecBuild == InitBuild /\ [][NextBuild]_vars

(* ---- the staging stage on its own, after one run of cell 8 in which ---- *)
(* ---- every command succeeded                                       ---- *)

BuiltRegion == IF cfgRegion = "" THEN DefaultRegion ELSE cfgRegion

Step(cmd, a, name, ok) == [cmd |-> cmd, arch |-> a, name |-> name, rc |-> Rc(ok)]

\* the log of one iteration of the loop in which every command succeeded
LoopLog(i) ==
  <<Step("build", Archs[i], LocalName(Archs[i]), TRUE),
    Step("tag", Archs[i], FULLNAME(awsAccount, BuiltRegion, Archs[i]), TRUE),
    Step("push", Archs[i], FULLNAME(awsAccount, BuiltRegion, Archs[i]), TRUE)>>

Built ==
  /\ dockerfile = TRUE
  /\ ecrRepo = TRUE
  /\ ecrTags = {FULLNAME(awsAccount, BuiltRegion, Archs[i]) : i \in 1..Len(Archs)}
  /\ logins = {"own", "base"}
  /\ localImages = {LocalName(Archs[i]) : i \in 1..Len(Archs)} \cup ecrTags
  /\ pc8 = "exited"
  /\ account = awsAccount
  /\ region = BuiltRegion
  /\ archIx = Len(Archs)
  /\ exitCode = 0
  /\ cmds = <<Step("wget", "", <<>>, TRUE), Step("sts", "", <<>>, TRUE),
              Step("region", "", <<>>, cfgRegion # ""),
              Step("describe", "", <<>>, TRUE),
              Step("login_own", "", <<>>, TRUE), Step("login_base", "", <<>>, TRUE)>>
            \o LoopLog(1) \o LoopLog(2)
  /\ buildRuns = 1

InitStaging ==
  /\ InitEnv
  /\ Built
  /\ InitLocalVars
  /\ InitRemoteVars
  /\ InitServeVars
  /\ cell = "stage_local"
  /\ last = "build"

SpecStaging == InitStaging /\ [][NextStaging]_vars

(* ---- training and serving on their own, after the build and after a ---- *)
(* ---- staging that downloaded and uploaded the whole dataset         ---- *)

Step12(cmd, ok) == [cmd |-> cmd, rc |-> Rc(ok)]

Staged ==
  /\ dirExists = TRUE
  /\ dirContent = ArchiveFiles
  /\ archive = "absent"
  /\ pc12 = "exited"
  /\ exit12 = 0
  /\ cmds12 = <<Step12("mkdir", TRUE), Step12("wget", TRUE), Step12("tar", TRUE),
                Step12("rm", TRUE)>>
  /\ localRuns = 1
  /\ s3Keys = ArchiveFiles
  /\ data_location = S3Uri(bucket_name, prefix)
  /\ staged = "uploaded"
  /\ uploadCalls = 1
  /\ remoteRuns = 1

InitServing ==
  /\ InitEnv
  /\ Built
  /\ Staged
  /\ InitServeVars
  /\ cell = "image"
  /\ last = "stage_remote"

SpecServing == InitServing /\ [][NextServing]_vars

(* ======================= the claims ======================= *)

\* the class folders that hold at least one object under prefix
RemoteClasses == {o[1] : o \in s3Keys}

\* a step that is an invocation of cell 20
StagingInvoked == remoteRuns' = remoteRuns + 1

C2_CompileOnlyAfterSuccess ==
  /\ compileSaw \subseteq {"Completed"}
  /\ jobStatus \in {"Failed", "Stopped"} => (cell = "fit" /\ ~CanRun("compile"))

\* a job failed, the training cell was run again, and the model was compiled
C2_Witness ==
  /\ runs["fit"] = 2
  /\ jobStatus = "Completed"
  /\ compileSaw = {"Completed"}

\* the indexes in the log of the pushes that succeeded
PushOk == {i \in DOMAIN cmds : cmds[i].cmd = "push" /\ cmds[i].rc = 0}

\* the image names the current run of cell 8 has pushed
PushedNow == {cmds[i].name : i \in PushOk}

\* C3 (as stated): every invocation of the build cell ends with exactly two
\* pushed tags.
C3_AsStated == pc8 = "exited" => Cardinality(PushedNow) = 2

\* C3 (amended): an invocation pushes one tag per successful docker push, each
\* of the form <account>.dkr.ecr.<region>.amazonaws.com/sagemaker-fastai:1.0-<arch>-py36
\* with arch one of gpu, cpu, so that two pushed tags differ only in the
\* architecture token; an invocation in which both pushes succeed ends with
\* exactly two pushed tags, one for gpu and one for cpu.
C3_TwoTagsWhenBothPushesSucceed ==
  /\ PushedNow \subseteq ecrTags
  /\ Cardinality(PushedNow) = Cardinality(PushOk)
  /\ \A t \in PushedNow :
       /\ t[6][2] \in {"gpu", "cpu"}
       /\ t = <<account, "dkr.ecr", region, "amazonaws.com", "sagemaker-fastai",
                <<"1.0", t[6][2], "py36">>>>
  /\ (pc8 = "exited" /\ Cardinality(PushOk) = 2) =>
       {t[6][2] : t \in PushedNow} = {"gpu", "cpu"}

\* a finished run in which both pushes succeeded
C3_Witness ==
  /\ pc8 = "exited"
  /\ Cardinality(PushedNow) = 2
  /\ exitCode = 0

LoopCmds == {"build", "tag", "push"}

\* C4: after a docker build, tag or push that failed, the run executes no
\* further build, tag or push.
C4_FirstFailureHaltsLoop ==
  \A i, j \in DOMAIN cmds :
    (i < j /\ cmds[i].cmd \in LoopCmds /\ cmds[i].rc # 0) => cmds[j].cmd \notin LoopCmds

\* the account lookup of the current run failed
IdentityFailed == \E i \in DOMAIN cmds : cmds[i].cmd = "sts" /\ cmds[i].rc # 0

\* C5: a run whose account lookup failed has exited with status 255, the
\* notebook stays at the build cell, and the run has executed nothing but the
\* download of the Dockerfile and the lookup: no existence check, no
\* create-repository, no login, no build, tag or push.
C5_IdentityFailureAborts ==
  IdentityFailed =>
    /\ pc8 = "exited"
    /\ exitCode = 255
    /\ cell = "build"
    /\ \A i \in DOMAIN cmds : cmds[i].cmd \in {"wget", "sts"}

\* a second run whose lookup failed, after a first run that pushed an image
C5_Witness ==
  /\ IdentityFailed
  /\ pc8 = "exited"
  /\ buildRuns = 2
  /\ ecrTags # {}

\* C6 (as stated): whenever staging reports the dataset as staged, by upload
\* or by skip, of a local dataset root that holds both classes, both class
\* folders are present under the prefix.
C6_AsStated ==
  (staged \in {"uploaded", "skipped"} /\ {f[1] : f \in dirContent} = Classes) =>
    Classes \subseteq RemoteClasses

\* C6 (amended): after staging by upload every file of the local dataset root
\* has its object under the prefix, hence every class folder the local root
\* holds is present remotely; after staging by skip the folder metal is
\* present remotely, and nothing is known of the other class.
C6_StagedContent ==
  /\ staged = "uploaded" =>
       /\ dirContent \subseteq s3Keys
       /\ {f[1] : f \in dirContent} \subseteq RemoteClasses
  /\ staged = "skipped" => "metal" \in RemoteClasses

\* an upload of the whole local dataset into an empty prefix
C6_Witness ==
  /\ staged = "uploaded"
  /\ remoteRuns = 1
  /\ {f[1] : f \in dirContent} = Classes
  /\ s3Keys = dirContent

\* C7: every predict call is made while the endpoint is live, there is at
\* most one live endpoint in every state, and an endpoint stops being live
\* only in a step of the delete cell.
C7_EndpointLifecycle ==
  /\ [](predictSaw \subseteq {TRUE} /\ Cardinality(endpoints) <= 1)
  /\ [][(endpoints # {} /\ endpoints' = {}) =>
          (runs'["delete"] = runs["delete"] + 1 /\ last' = "delete")]_vars

\* predictions were served and the endpoint was then deleted
C7_Witness ==
  /\ runs["predict"] = 2
  /\ predictSaw = {TRUE}
  /\ lastDelete = "deleted"
  /\ endpoints = {}

\* C8: a delete_endpoint call on a live endpoint removes it; a call on an
\* endpoint that is deleted already ends as not found, raises, and leaves the
\* endpoints as they were.
C8_DeleteOnce ==
  [][runs'["delete"] = runs["delete"] + 1 =>
       IF "deployed-shirts-classification" \in endpoints
         THEN /\ endpoints' = {}
              /\ lastDelete' = "deleted"
              /\ cell' = "end"
         ELSE /\ endpoints' = endpoints
              /\ lastDelete' = "not_found"
              /\ cell' = "delete"]_vars

\* a second delete_endpoint call, after the first removed the endpoint
C8_Witness ==
  /\ runs["delete"] = 2
  /\ lastDelete = "not_found"
  /\ endpoints = {}
  /\ cell = "delete"

\* a step that is an invocation of cell 12
LocalInvoked == localRuns' = localRuns + 1

C10_RepositoryCreatedIffAbsent ==
  /\ pc8 # "create" =>
       ((\E i \in DOMAIN cmds : cmds[i].cmd = "create") <=>
          (\E i \in DOMAIN cmds : cmds[i].cmd = "describe" /\ cmds[i].rc # 0))
  /\ \A i \in DOMAIN cmds : cmds[i].cmd = "create" => (cmds[i].rc = 0 \/ ~ecrRepo)
  /\ (\E i \in DOMAIN cmds : cmds[i].cmd = "push") => ecrRepo

(* ---- from the build to the training job: cell 8, the staging cells, ---- *)
(* ---- the image cells and the training cell                          ---- *)

NextTraining ==
  \/ NextBuild
  \/ NextStaging
  \/ ResolveImage
  \/ Fit

SpecTraining == InitBuild /\ [][NextTraining]_vars

\* C11: the image URI the estimator is given names an image the build cell
\* pushed: it is in the registry, and it is the gpu variant's full name
\* <account>.dkr.ecr.<region>.amazonaws.com/sagemaker-fastai:1.0-gpu-py36 with
\* the account and the region the build cell used.
C11_TrainingImageWasPushed ==
  image_name # <<>> =>
    /\ image_name \in ecrTags
    /\ image_name = <<account, "dkr.ecr", region, "amazonaws.com", "sagemaker-fastai",
                      <<"1.0", "gpu", "py36">>>>
====
